---------------------------- MODULE Spec2Model ----------------------------
(***************************************************************************)
(* A model of the AgentOrchestrator of the AgentricAI University ecosystem *)
(* (src/src/core/orchestrator.js) and of the callers that touch its state  *)
(* (src/src/electron/preload.js).                                          *)
(*                                                                         *)
(* Every async method is split at its await points: the code between two   *)
(* awaits runs to completion on the JavaScript event loop, so it is one    *)
(* atomic action here, and the continuations of different calls interleave *)
(* freely.  Agent objects live in `heap`; the Maps `agents` and            *)
(* `activeAgents` and the fields `guardian`, `blackBox`, `studentAgent`    *)
(* hold references (indices) into it, 0 standing for null / absent.        *)
(***************************************************************************)
EXTENDS Naturals, Integers, Sequences, FiniteSets, TLC

\* ------------------------------------------------------------------ bounds
\* Calls of the public API, initialize() included, made during one run.
MaxCalls == 3

\* The callers of the orchestrator: each makes one call at a time and waits
\* for its result; the calls of different callers run concurrently.  A new
\* call is made by the first caller that is free (callers are
\* interchangeable).
CallerOrder == << "c1", "c2" >>

Callers == { CallerOrder[i] : i \in 1..Len(CallerOrder) }

\* ------------------------------------------------------- registry and config
Undefined == "undefined"

\* config.agents.departments of ecosystem.config.js, in its key order: the
\* departmental section of agents/registry.json is iterated in key order.
DepartmentOrder ==
  << "principal", "athletics", "math", "science", "arts",
     "counseling", "curriculum", "admin" >>

DepartmentIds == { DepartmentOrder[i] : i \in 1..Len(DepartmentOrder) }

ImmutableIds == { "guardian", "blackBox" }

StudentId == "agentricAI"

\* An id no registry section names.
UnknownId == "ghost"

AgentIds == ImmutableIds \cup DepartmentIds \cup { StudentId, UnknownId }

\* A config object: its name (or Undefined) and its priority (0 also stands
\* for an absent priority: `config.priority || 5` treats both alike).
Config(name, priority) ==
  [ isNull |-> FALSE, name |-> name, priority |-> priority ]

\* A registry entry that holds no object: createAgent reads `config.id` of
\* it and throws a TypeError.
NullConfig == [ isNull |-> TRUE, name |-> Undefined, priority |-> 0 ]

DepartmentPriority(id) ==
  CASE id \in { "principal", "counseling" } -> 1
    [] id \in { "math", "science", "curriculum", "admin" } -> 2
    [] OTHER -> 3

\* agents/registry.json: immutableAgents, departmentalAgents,
\* studentFacingAgent.  `fault` names the one entry that is null, if any.
RegistryFaults == { "none", "guardian", "blackBox", "math", "agentricAI" }

agentRegistry(fault, id) ==
  CASE id = fault -> NullConfig
    [] id \in ImmutableIds -> Config(id, 0)
    [] id \in DepartmentIds -> Config(id, DepartmentPriority(id))
    [] OTHER -> Config(id, 1)

\* ------------------------------------------------------------------- logger
\* winston.createLogger without a `levels` option installs the npm levels.
NpmLevels == { "error", "warn", "info", "http", "verbose", "debug", "silly" }

\* The levels the logger of an orchestrator may offer: those of createLogger
\* as called by setupLogger, or those of a logger that also has the
\* `critical` method handleEmergency calls.
LoggerLevelSets == { NpmLevels, NpmLevels \cup { "critical" } }

\* ------------------------------------------------------------------- state
VARIABLES
  heap,            \* the agent objects ever created, by index
  agents,          \* this.agents: id -> object (0: absent)
  activeAgents,    \* this.activeAgents: id -> object (0: absent)
  guardian,        \* this.guardian (0: null)
  blackBox,        \* this.blackBox (0: null)
  studentAgent,    \* this.studentAgent (0: null)
  isInitialized,   \* this.isInitialized
  systemState,     \* this.systemState
  loggerLevels,    \* the methods this.logger offers
  registryFault,   \* the null entry of agents/registry.json, or "none"
  healthTimers,    \* the intervals startHealthMonitoring has set
  events,          \* the 'system:emergency' events emitted so far
  delivered,       \* the envelopes whose delivery has completed so far
  ncalls,          \* the API calls made so far
  calls            \* per caller: its current (or last) call

vars == << heap, agents, activeAgents, guardian, blackBox, studentAgent,
           isInitialized, systemState, loggerLevels, registryFault,
           healthTimers, events, delivered, ncalls, calls >>

env == << loggerLevels, registryFault >>

refs == << guardian, blackBox, studentAgent >>

\* ------------------------------------------------------------ agent objects
\* The object createAgent builds (lines 142-174): status ends 'active', the
\* metadata starts at zero interactions; `immutable` and `isStudentFacing`
\* are absent (FALSE) until an initializer adds them.
NewAgent(agentId, config) ==
  [ key |-> agentId, name |-> config.name, status |-> "active",
    priority |-> IF config.priority = 0 THEN 5 ELSE config.priority,
    immutable |-> FALSE, isStudentFacing |-> FALSE, interactions |-> 0 ]

\* ------------------------------------------------------------------- calls
\* A call: its method, its position (pc), its arguments (a1, a2), its locals
\* (idx, tmp), the envelope's metadata.ethicalReview and priority, its result
\* ("pending" until it returns) and the trace of what it did.
NewCall(kind, a1, a2) ==
  [ kind |-> kind, pc |-> "start", a1 |-> a1, a2 |-> a2, idx |-> 0,
    tmp |-> 0, ethicalReview |-> FALSE, priority |-> 0,
    result |-> "pending", trace |-> << >> ]

NoCall == [ NewCall("none", "", "") EXCEPT !.pc = "done", !.result = "none" ]

Done(c, result) == [c EXCEPT !.pc = "done", !.result = result]

\* A caller may start a call when its last one has returned.
Returned(c) == calls[c].pc = "done"

Free(c) ==
  \E i \in 1..Len(CallerOrder) :
    /\ c = CallerOrder[i]
    /\ Returned(c)
    /\ \A j \in 1..(i - 1) : ~Returned(CallerOrder[j])

CanCall(c) == Free(c) /\ ncalls < MaxCalls

\* initialize() is called by startSystem (preload.js), which awaits it: the
\* first caller stands for it.
CanInit(c) == c = CallerOrder[1] /\ Returned(c) /\ ncalls < MaxCalls

At(c, kind, pc) == calls[c].kind = kind /\ calls[c].pc = pc

\* An entry of a call's trace: what the call did, to which object.
Ev(ev, key, oid, type) == [ ev |-> ev, key |-> key, oid |-> oid, type |-> type ]

\* The state after construction (lines 12-36), the registry having one of
\* `faults`.
InitWith(faults) ==
  /\ heap = << >>
  /\ agents = [ id \in AgentIds |-> 0 ]
  /\ activeAgents = [ id \in AgentIds |-> 0 ]
  /\ guardian = 0
  /\ blackBox = 0
  /\ studentAgent = 0
  /\ isInitialized = FALSE
  /\ systemState = [ status |-> "initializing", lastHealthCheck |-> 0,
                     totalInteractions |-> 0, emergencyMode |-> FALSE ]
  /\ loggerLevels \in LoggerLevelSets
  /\ registryFault \in faults
  /\ healthTimers = 0
  /\ events = 0
  /\ delivered = 0
  /\ ncalls = 0
  /\ calls = [ c \in Callers |-> NoCall ]

\* The registry as shipped: every entry holds a config object.
Init == InitWith({ "none" })

\* A registry of which one entry may hold no config object.
InitFaults == InitWith(RegistryFaults)

\* --------------------------------------------------------------- createAgent
\* The effect of `await this.createAgent(agentId, config)` on the heap `h`
\* and on this.agents `m` (lines 141-178); a null config throws at line 143,
\* before anything is stored.
CreateThrows(config) == config.isNull

HeapAfterCreate(h, agentId, config) ==
  IF CreateThrows(config) THEN h ELSE Append(h, NewAgent(agentId, config))

CreatedOid(h, config) == IF CreateThrows(config) THEN 0 ELSE Len(h) + 1

AgentsAfterCreate(m, h, agentId, config) ==
  IF CreateThrows(config) THEN m
  ELSE [m EXCEPT ![agentId] = CreatedOid(h, config)]

\* createAgent(agentId, config) called directly: no check of config.name or
\* of an earlier registration; the object is built, set 'active' and stored
\* in this.agents.  The call record keeps the entry it found (idx) and the
\* object it made (tmp).
CreateAgent(c, agentId, config) ==
  /\ CanCall(c)
  /\ ncalls' = ncalls + 1
  /\ heap' = HeapAfterCreate(heap, agentId, config)
  /\ agents' = AgentsAfterCreate(agents, heap, agentId, config)
  /\ calls' = [calls EXCEPT ![c] =
       [ Done(NewCall("createAgent", agentId, config.name),
              IF CreateThrows(config) THEN "threw" ELSE "ok")
           EXCEPT !.tmp = CreatedOid(heap, config), !.idx = agents[agentId] ]]
  /\ UNCHANGED << activeAgents, refs, isInitialized, systemState, env,
                  healthTimers, events, delivered >>

\* The arguments of the direct createAgent calls of the model.
CreateArgs ==
  { << "guardian", Config(Undefined, 0) >>, << UnknownId, Config("n", 3) >> }

\* ---------------------------------------------------------------- initialize
\* A call of initialize() is at: "guardian", "blackBox", "departmental"
\* (idx: the department being created), "student": awaiting that
\* createAgent; "channels": awaiting setupCommunicationChannels; "done".

\* The call record once createAgent(agentId, config) has been called on heap
\* h and the call awaits its promise at `pc`.
Awaiting(c, pc, h, agentId, config) ==
  [c EXCEPT !.pc = pc, !.tmp = CreatedOid(h, config),
            !.trace = IF CreateThrows(config) THEN @
                      ELSE Append(@, Ev("create", agentId, CreatedOid(h, config), ""))]

Activated(c, agentId) ==
  [c EXCEPT !.trace = Append(@, Ev("activate", agentId, c.tmp, ""))]

\* An initialize() that puts the status back to 'initializing' on entry.
InitializeStartResets(c) ==
  /\ CanInit(c)
  /\ ncalls' = ncalls + 1
  /\ systemState' = [systemState EXCEPT !.status = "initializing"]
  /\ LET config == agentRegistry(registryFault, "guardian") IN
       /\ heap' = HeapAfterCreate(heap, "guardian", config)
       /\ agents' = AgentsAfterCreate(agents, heap, "guardian", config)
       /\ calls' = [calls EXCEPT ![c] =
            Awaiting(NewCall("initialize", "", ""), "guardian", heap,
                     "guardian", config)]
  /\ UNCHANGED << activeAgents, refs, isInitialized, env, healthTimers,
                  events, delivered >>

\* initialize() up to its first await (lines 41-46, 77-81): createAgent of
\* the Guardian has run.
InitializeStart(c) ==
  /\ CanInit(c)
  /\ ncalls' = ncalls + 1
  /\ LET config == agentRegistry(registryFault, "guardian") IN
       /\ heap' = HeapAfterCreate(heap, "guardian", config)
       /\ agents' = AgentsAfterCreate(agents, heap, "guardian", config)
       /\ calls' = [calls EXCEPT ![c] =
            Awaiting(NewCall("initialize", "", ""), "guardian", heap,
                     "guardian", config)]
  /\ UNCHANGED << activeAgents, refs, isInitialized, systemState, env,
                  healthTimers, events, delivered >>

\* A catch that rethrows and leaves the status as it is.
InitializeFailKeepsStatus(c) ==
  /\ calls' = [calls EXCEPT ![c] = Done(@, "threw")]
  /\ UNCHANGED << heap, agents, activeAgents, refs, isInitialized, env,
                  healthTimers, events, delivered, ncalls, systemState >>

\* The catch of initialize() (lines 65-70), reached by the rethrow of
\* initializeImmutableAgents or initializeStudentAgent.
InitializeFail(c) ==
  /\ systemState' = [systemState EXCEPT !.status = "error"]
  /\ calls' = [calls EXCEPT ![c] = Done(@, "threw")]
  /\ UNCHANGED << heap, agents, activeAgents, refs, isInitialized, env,
                  healthTimers, events, delivered, ncalls >>

\* An initializeImmutableAgents that goes on to the Black Box without having
\* registered the Guardian.
InitializeGuardianUnregistered(c) ==
  /\ At(c, "initialize", "guardian")
  /\ IF calls[c].tmp = 0 THEN InitializeFail(c)
     ELSE LET config == agentRegistry(registryFault, "blackBox") IN
          /\ heap' = HeapAfterCreate(heap, "blackBox", config)
          /\ agents' = AgentsAfterCreate(agents, heap, "blackBox", config)
          /\ calls' = [calls EXCEPT ![c] =
               Awaiting(@, "blackBox", heap, "blackBox", config)]
          /\ UNCHANGED << activeAgents, refs, isInitialized, systemState,
                          env, healthTimers, events, delivered, ncalls >>

\* Lines 81-88: the Guardian is kept, marked and activated; createAgent of
\* the Black Box has run.
InitializeGuardian(c) ==
  /\ At(c, "initialize", "guardian")
  /\ IF calls[c].tmp = 0 THEN InitializeFail(c)
     ELSE LET g == calls[c].tmp
              h == [heap EXCEPT ![g].immutable = TRUE, ![g].priority = 0]
              config == agentRegistry(registryFault, "blackBox")
          IN /\ guardian' = g
             /\ activeAgents' = [activeAgents EXCEPT !["guardian"] = g]
             /\ heap' = HeapAfterCreate(h, "blackBox", config)
             /\ agents' = AgentsAfterCreate(agents, h, "blackBox", config)
             /\ calls' = [calls EXCEPT ![c] =
                  Awaiting(Activated(@, "guardian"), "blackBox", h,
                           "blackBox", config)]
             /\ UNCHANGED << blackBox, studentAgent, isInitialized,
                             systemState, env, healthTimers, events,
                             delivered, ncalls >>

\* Lines 88-93, 46-49, 104-109: the Black Box is kept, marked and activated;
\* initializeDepartmentalAgents has called createAgent of the first
\* department.
InitializeBlackBox(c) ==
  /\ At(c, "initialize", "blackBox")
  /\ IF calls[c].tmp = 0 THEN InitializeFail(c)
     ELSE LET b == calls[c].tmp
              h == [heap EXCEPT ![b].immutable = TRUE, ![b].priority = 0]
              d == DepartmentOrder[1]
              config == agentRegistry(registryFault, d)
          IN /\ blackBox' = b
             /\ activeAgents' = [activeAgents EXCEPT !["blackBox"] = b]
             /\ heap' = HeapAfterCreate(h, d, config)
             /\ agents' = AgentsAfterCreate(agents, h, d, config)
             /\ calls' = [calls EXCEPT ![c] =
                  [Awaiting(Activated(@, "blackBox"), "departmental", h, d,
                            config) EXCEPT !.idx = 1]]
             /\ UNCHANGED << guardian, studentAgent, isInitialized,
                             systemState, env, healthTimers, events,
                             delivered, ncalls >>

\* A loop that a failed creation ends.
AfterDepartmentBreaks(r) ==
  IF r.tmp = 0 THEN Len(DepartmentOrder) + 1 ELSE r.idx + 1

\* Lines 107-117: the catch sits inside the loop, which goes on to the next
\* entry whether the creation of this one (r.tmp, 0: it threw) succeeded or
\* not.
AfterDepartment(r) == r.idx + 1

\* Lines 107-117, then 49-52 and 123-126: the department just created is
\* activated, or its failure logged and skipped; createAgent of the next
\* department, or after the last one of the student agent, has run.
InitializeDepartmental(c) ==
  /\ At(c, "initialize", "departmental")
  /\ LET r == calls[c]
         d == DepartmentOrder[r.idx]
         last == AfterDepartment(r) > Len(DepartmentOrder)
         next == IF last THEN StudentId ELSE DepartmentOrder[AfterDepartment(r)]
         config == agentRegistry(registryFault, next)
         r1 == IF r.tmp = 0 THEN r ELSE Activated(r, d)
     IN /\ activeAgents' = IF r.tmp = 0 THEN activeAgents
                           ELSE [activeAgents EXCEPT ![d] = r.tmp]
        /\ heap' = HeapAfterCreate(heap, next, config)
        /\ agents' = AgentsAfterCreate(agents, heap, next, config)
        /\ calls' = [calls EXCEPT ![c] =
             [Awaiting(r1, IF last THEN "student" ELSE "departmental", heap,
                       next, config)
                EXCEPT !.idx = IF last THEN 0 ELSE AfterDepartment(r)]]
  /\ UNCHANGED << refs, isInitialized, systemState, env, healthTimers,
                  events, delivered, ncalls >>

\* Lines 126-130 and 52-55: the student agent is kept, marked and activated;
\* setupCommunicationChannels has run and is awaited.
InitializeStudent(c) ==
  /\ At(c, "initialize", "student")
  /\ IF calls[c].tmp = 0 THEN InitializeFail(c)
     ELSE LET a == calls[c].tmp IN
          /\ studentAgent' = a
          /\ heap' = [heap EXCEPT ![a].isStudentFacing = TRUE]
          /\ activeAgents' = [activeAgents EXCEPT ![StudentId] = a]
          /\ calls' = [calls EXCEPT ![c] =
               [Activated(@, StudentId) EXCEPT !.pc = "channels", !.tmp = 0]]
          /\ UNCHANGED << agents, guardian, blackBox, isInitialized,
                          systemState, env, healthTimers, events, delivered,
                          ncalls >>

\* Lines 57-63: the health timer is started and the system is operational.
InitializeFinish(c) ==
  /\ At(c, "initialize", "channels")
  /\ healthTimers' = healthTimers + 1
  /\ isInitialized' = TRUE
  /\ systemState' = [systemState EXCEPT !.status = "operational"]
  /\ calls' = [calls EXCEPT ![c] = Done(@, "ok")]
  /\ UNCHANGED << heap, agents, activeAgents, refs, env, events, delivered,
                  ncalls >>

Initialize(c) ==
  \/ InitializeGuardian(c)
  \/ InitializeBlackBox(c)
  \/ InitializeDepartmental(c)
  \/ InitializeStudent(c)
  \/ InitializeFinish(c)

\* ------------------------------------------------------------ agent replies
\* What processAgentMessage (lines 467-476) returns: an object with
\* success, response and timestamp, and no other field.
PlaceholderReply == "plain"

\* What the specialised agents that replace the placeholder may do instead:
\* the Guardian answers a review with approved true or false, the admin
\* agent may report goals, and any agent may throw.
ReviewReplies == { PlaceholderReply, "approved", "throw" }

AdminReplies == { PlaceholderReply, "goals", "throw" }

Replies == { PlaceholderReply, "throw" }

\* The part of the state a call's step works on: the heap, the call record,
\* this.systemState, the emergency events emitted and the deliveries made.
Work(c) ==
  [ h |-> heap, c |-> calls[c], ss |-> systemState, ev |-> events,
    dl |-> delivered ]

Commit(c, s) ==
  /\ heap' = s.h
  /\ calls' = [calls EXCEPT ![c] = s.c]
  /\ systemState' = s.ss
  /\ events' = s.ev
  /\ delivered' = s.dl

\* agent.processMessage(message) is called (lines 158-160, 467-470): the
\* agent's interaction counter goes up; the call awaits the reply at `pc`.
Invoke(s, pc, key, oid, type) ==
  [s EXCEPT !.h = [@ EXCEPT ![oid].interactions = @ + 1],
            !.c = [@ EXCEPT !.pc = pc, !.tmp = oid,
                            !.trace = Append(@, Ev("invoke", key, oid, type))]]

\* The reply the call was awaiting has arrived.
Replied(s, reply) ==
  [s EXCEPT !.c = [@ EXCEPT !.trace =
     Append(@, Ev("reply", s.c.trace[Len(s.c.trace)].key, s.c.tmp, reply))]]

Return(s, result) == [s EXCEPT !.c = Done(@, result)]

\* ---------------------------------------------------------- getMessagePriority
Min(a, b) == IF a <= b THEN a ELSE b

\* A priority rule that looks at the Counseling agent before the Guardian.
getMessagePriorityCounselingFirst(fromAgentId, toAgentId) ==
  LET fromAgent == activeAgents[fromAgentId]
      toAgent == activeAgents[toAgentId]
  IN IF fromAgent = 0 \/ toAgent = 0 THEN 5
     ELSE IF fromAgentId = "counseling" \/ toAgentId = "counseling" THEN 2
     ELSE IF fromAgentId = "guardian" \/ toAgentId = "guardian" THEN 1
     ELSE Min(heap[fromAgent].priority, heap[toAgent].priority)

\* Lines 436-447.
getMessagePriority(fromAgentId, toAgentId) ==
  LET fromAgent == activeAgents[fromAgentId]
      toAgent == activeAgents[toAgentId]
  IN IF fromAgent = 0 \/ toAgent = 0 THEN 5
     ELSE IF fromAgentId = "guardian" \/ toAgentId = "guardian" THEN 1
     ELSE IF fromAgentId = "counseling" \/ toAgentId = "counseling" THEN 2
     ELSE Min(heap[fromAgent].priority, heap[toAgent].priority)

\* ---------------------------------------------------------------- routeMessage
\* A call of routeMessage(a1, a2, message) is at "review", "audit" or
\* "deliver": awaiting the Guardian, the Black Box or the target.

\* A catch that rethrows to the caller of routeMessage.
RouteCatchRethrows(s, error) == Return(s, "threw")

\* The catch of routeMessage (lines 236-239): whatever was thrown inside the
\* try, which spans the whole body, is logged and returned as
\* { success: false, error }.
RouteCatch(s, error) == Return(s, error)

\* A lookup that counts an interaction also when it finds no target.
RouteDeliverCountsNotFound(s) ==
  LET targetAgent == activeAgents[s.c.a2] IN
    IF targetAgent = 0
    THEN RouteCatch([s EXCEPT !.ss.totalInteractions = @ + 1],
                    "error:not found")
    ELSE Invoke(s, "deliver", s.c.a2, targetAgent, "envelope")

\* Lines 223-229: the target is looked up in this.activeAgents; an unknown
\* target throws into the catch of lines 236-239.
RouteDeliver(s) ==
  LET targetAgent == activeAgents[s.c.a2] IN
    IF targetAgent = 0 THEN RouteCatch(s, "error:not found")
    ELSE Invoke(s, "deliver", s.c.a2, targetAgent, "envelope")

\* Lines 215-221: the Black Box, when set, is asked to log the envelope.
RouteAudit(s) ==
  IF blackBox # 0
  THEN Invoke(s, "audit", "blackBox", blackBox, "log_interaction")
  ELSE RouteDeliver(s)

\* Line 201: the Guardian reviews unless it is unset or is the sender.
\* A review that is asked for the Guardian's own envelopes too.
NeedsReviewEveryone(fromAgentId) == guardian # 0

NeedsReview(fromAgentId) == guardian # 0 /\ fromAgentId # "guardian"

\* Lines 183-205: the envelope is built; the Guardian is asked for its
\* review.
RouteStart(c, fromAgentId, toAgentId) ==
  /\ CanCall(c)
  /\ ncalls' = ncalls + 1
  /\ LET r == [NewCall("routeMessage", fromAgentId, toAgentId)
                 EXCEPT !.priority = getMessagePriority(fromAgentId, toAgentId)]
         s == [Work(c) EXCEPT !.c = r]
     IN Commit(c, IF NeedsReview(fromAgentId)
                  THEN Invoke(s, "review", "guardian", guardian, "ethical_review")
                  ELSE RouteAudit(s))
  /\ UNCHANGED << agents, activeAgents, refs, isInitialized, env,
                  healthTimers >>

\* A review that blocks only what the Guardian throws on.
ReviewOutcomePassesUnapproved(reply) ==
  IF reply = "throw" THEN "error:review" ELSE "pass"

\* A review whose throw is taken for an approval.
ReviewOutcomeThrowPasses(reply) ==
  IF reply \in { "throw", "approved" } THEN "pass" ELSE "blocked"

\* The outcome of the review (lines 207-213), reply being what the Guardian
\* answered: only `approved: true` lets the envelope pass; a throw lands in
\* the catch (lines 236-239).
ReviewOutcome(reply) ==
  CASE reply = "throw" -> "error:review"
    [] reply = "approved" -> "pass"
    [] OTHER -> "blocked"

RouteReviewed(c, reply) ==
  /\ At(c, "routeMessage", "review")
  /\ LET s == Replied(Work(c), reply) IN
       Commit(c, IF ReviewOutcome(reply) = "pass"
                 THEN RouteAudit([s EXCEPT !.c.ethicalReview = TRUE])
                 ELSE IF ReviewOutcome(reply) = "blocked"
                 THEN Return(s, "blocked")
                 ELSE RouteCatch(s, ReviewOutcome(reply)))
  /\ UNCHANGED << agents, activeAgents, refs, isInitialized, env,
                  healthTimers, ncalls >>

\* Lines 217-229: the Black Box has answered; a throw lands in the catch.
RouteAudited(c, reply) ==
  /\ At(c, "routeMessage", "audit")
  /\ LET s == Replied(Work(c), reply) IN
       Commit(c, IF reply = "throw" THEN RouteCatch(s, "error:audit")
                 ELSE RouteDeliver(s))
  /\ UNCHANGED << agents, activeAgents, refs, isInitialized, env,
                  healthTimers, ncalls >>

\* Lines 229-234: the target has answered; its response is returned and
\* totalInteractions counted up, or its throw lands in the catch.
\* A delivery that completes without the increment of line 232.
CountedOnlyDelivery(s) == [s EXCEPT !.dl = @ + 1]

Counted(s) ==
  [s EXCEPT !.ss.totalInteractions = @ + 1, !.dl = @ + 1]

\* A delivery that takes a target that threw out of the active agents.
RouteDeliveredDropsTarget(c, reply) ==
  /\ At(c, "routeMessage", "deliver")
  /\ LET s == Replied(Work(c), reply) IN
       Commit(c, IF reply = "throw" THEN RouteCatch(s, "error:target")
                 ELSE Return(Counted(s), "ok"))
  /\ activeAgents' = IF reply = "throw"
                     THEN [activeAgents EXCEPT ![calls[c].a2] = 0]
                     ELSE activeAgents
  /\ UNCHANGED << agents, refs, isInitialized, env, healthTimers, ncalls >>

RouteDelivered(c, reply) ==
  /\ At(c, "routeMessage", "deliver")
  /\ LET s == Replied(Work(c), reply) IN
       Commit(c, IF reply = "throw" THEN RouteCatch(s, "error:target")
                 ELSE Return(Counted(s), "ok"))
  /\ UNCHANGED << agents, activeAgents, refs, isInitialized, env,
                  healthTimers, ncalls >>

\* The arguments of the routeMessage calls of the model.
RouteArgs ==
  { << "guardian", "counseling" >>, << "math", "counseling" >>,
    << "math", UnknownId >> }

RouteMessage(c) ==
  \/ \E reply \in ReviewReplies : RouteReviewed(c, reply)
  \/ \E reply \in Replies : RouteAudited(c, reply)
  \/ \E reply \in Replies : RouteDelivered(c, reply)

\* ----------------------------------------------------------- determineDepartment
\* Strings are sequences of characters.
UpperCase == << "A", "B", "C", "D", "E", "F", "G", "H", "I", "J", "K", "L", "M",
                "N", "O", "P", "Q", "R", "S", "T", "U", "V", "W", "X", "Y", "Z" >>

LowerCase == << "a", "b", "c", "d", "e", "f", "g", "h", "i", "j", "k", "l", "m",
                "n", "o", "p", "q", "r", "s", "t", "u", "v", "w", "x", "y", "z" >>

\* String.prototype.toLowerCase on the characters of the model.
toLowerCase(str) ==
  [ i \in 1..Len(str) |->
      IF \E k \in 1..Len(UpperCase) : UpperCase[k] = str[i]
      THEN LowerCase[CHOOSE k \in 1..Len(UpperCase) : UpperCase[k] = str[i]]
      ELSE str[i] ]

\* String.prototype.includes: `sub` occurs in `str` as a substring.
includes(str, sub) ==
  \E i \in 1..(Len(str) - Len(sub) + 1) : SubSeq(str, i, i + Len(sub) - 1) = sub

Null == "null"

\* A classifier whose rows ask for both of their keywords.
determineDepartmentBothKeywords(content) ==
  LET text == toLowerCase(content) IN
    IF includes(text, << "m", "a", "t", "h" >>)
            /\ includes(text, << "c", "a", "l", "c", "u", "l", "a", "t", "i", "o", "n" >>)
    THEN "math"
    ELSE IF includes(text, << "s", "c", "i", "e", "n", "c", "e" >>)
            /\ includes(text, << "e", "x", "p", "e", "r", "i", "m", "e", "n", "t" >>)
    THEN "science"
    ELSE IF includes(text, << "a", "r", "t" >>)
            /\ includes(text, << "c", "r", "e", "a", "t", "i", "v", "e" >>)
    THEN "arts"
    ELSE IF includes(text, << "e", "x", "e", "r", "c", "i", "s", "e" >>)
            /\ includes(text, << "f", "i", "t", "n", "e", "s", "s" >>)
    THEN "athletics"
    ELSE IF includes(text, << "s", "a", "d" >>)
            /\ includes(text, << "w", "o", "r", "r", "i", "e", "d" >>)
    THEN "counseling"
    ELSE Null

\* A classifier that tries the rows in another order: counseling first.
determineDepartmentCounselingFirst(content) ==
  LET text == toLowerCase(content) IN
    IF includes(text, << "s", "a", "d" >>) \/ includes(text, << "w", "o", "r", "r", "i", "e", "d" >>)
    THEN "counseling"
    ELSE IF includes(text, << "m", "a", "t", "h" >>)
            \/ includes(text, << "c", "a", "l", "c", "u", "l", "a", "t", "i", "o", "n" >>)
    THEN "math"
    ELSE IF includes(text, << "s", "c", "i", "e", "n", "c", "e" >>)
            \/ includes(text, << "e", "x", "p", "e", "r", "i", "m", "e", "n", "t" >>)
    THEN "science"
    ELSE IF includes(text, << "a", "r", "t" >>)
            \/ includes(text, << "c", "r", "e", "a", "t", "i", "v", "e" >>)
    THEN "arts"
    ELSE IF includes(text, << "e", "x", "e", "r", "c", "i", "s", "e" >>)
            \/ includes(text, << "f", "i", "t", "n", "e", "s", "s" >>)
    THEN "athletics"
    ELSE Null

\* Lines 449-460; `content` is interaction.content, << >> when it is absent.
determineDepartment(content) ==
  LET text == toLowerCase(content) IN
    IF includes(text, << "m", "a", "t", "h" >>)
       \/ includes(text, << "c", "a", "l", "c", "u", "l", "a", "t", "i", "o", "n" >>)
    THEN "math"
    ELSE IF includes(text, << "s", "c", "i", "e", "n", "c", "e" >>)
            \/ includes(text, << "e", "x", "p", "e", "r", "i", "m", "e", "n", "t" >>)
    THEN "science"
    ELSE IF includes(text, << "a", "r", "t" >>)
            \/ includes(text, << "c", "r", "e", "a", "t", "i", "v", "e" >>)
    THEN "arts"
    ELSE IF includes(text, << "e", "x", "e", "r", "c", "i", "s", "e" >>)
            \/ includes(text, << "f", "i", "t", "n", "e", "s", "s" >>)
    THEN "athletics"
    ELSE IF includes(text, << "s", "a", "d" >>)
            \/ includes(text, << "w", "o", "r", "r", "i", "e", "d" >>)
    THEN "counseling"
    ELSE Null

\* ------------------------------------------------------ processStudentInteraction
\* A call of processStudentInteraction(studentId, interaction), a1 being
\* interaction.content, is at "student", "monitor", "department" or
\* "fallback": awaiting the student agent, the counseling agent's
\* monitoring, the departmental agent or the counseling agent's emergency
\* response.
Has(id) == activeAgents[id] # 0

\* A catch that rethrows without asking the counseling agent.
StudentCatchRethrows(s) == Return(s, "threw")

\* The catch (lines 280-293): the counseling agent, when active, is asked
\* for an emergency response; otherwise the error is rethrown.
StudentCatch(s) ==
  IF Has("counseling")
  THEN Invoke(s, "fallback", "counseling", activeAgents["counseling"],
              "emergency_response")
  ELSE Return(s, "threw")

\* Lines 266-278.
StudentDepartment(s) ==
  LET department == determineDepartment(s.c.a1) IN
    IF department # Null /\ Has(department)
    THEN Invoke(s, "department", department, activeAgents[department],
                "departmental_query")
    ELSE Return(s, "ok")

\* Lines 255-264.
StudentMonitor(s) ==
  IF Has("counseling")
  THEN Invoke(s, "monitor", "counseling", activeAgents["counseling"],
              "emotional_monitoring")
  ELSE StudentDepartment(s)

\* Lines 245-253: the student agent is called directly; while
\* this.studentAgent is null the call throws into the catch.
StudentStart(c, content) ==
  /\ CanCall(c)
  /\ ncalls' = ncalls + 1
  /\ LET s == [Work(c) EXCEPT !.c = NewCall("studentInteraction", content, "")]
     IN Commit(c, IF studentAgent = 0 THEN StudentCatch(s)
                  ELSE Invoke(s, "student", StudentId, studentAgent,
                              "student_interaction"))
  /\ UNCHANGED << agents, activeAgents, refs, isInitialized, env,
                  healthTimers >>

StudentStep(c, reply) ==
  /\ calls[c].kind = "studentInteraction"
  /\ calls[c].pc \in { "student", "monitor", "department", "fallback" }
  /\ LET s == Replied(Work(c), reply)
         pc == calls[c].pc
     IN Commit(c,
          CASE pc = "fallback" ->
                 Return(s, IF reply = "throw" THEN "threw" ELSE "fallback")
            [] pc # "fallback" /\ reply = "throw" -> StudentCatch(s)
            [] pc = "student" /\ reply # "throw" -> StudentMonitor(s)
            [] pc = "monitor" /\ reply # "throw" -> StudentDepartment(s)
            [] pc = "department" /\ reply # "throw" -> Return(s, "ok"))
  /\ UNCHANGED << agents, activeAgents, refs, isInitialized, env,
                  healthTimers, ncalls >>

\* The interaction contents of the model.
Contents == { << "m", "a", "t", "h" >>, << "h", "i" >> }

\* ------------------------------------------------------------ processAdminMessage
\* A call of processAdminMessage(source, message) is at "admin" or
\* "curriculum": awaiting that agent.

\* Lines 337-350: without an active admin agent the call throws.
AdminStart(c) ==
  /\ CanCall(c)
  /\ ncalls' = ncalls + 1
  /\ LET s == [Work(c) EXCEPT !.c = NewCall("adminMessage", "parent", "")]
     IN Commit(c, IF ~Has("admin") THEN Return(s, "threw")
                  ELSE Invoke(s, "admin", "admin", activeAgents["admin"],
                              "admin_input"))
  /\ UNCHANGED << agents, activeAgents, refs, isInitialized, env,
                  healthTimers >>

\* Lines 352-368: goals go on to the curriculum agent, when it is active.
AdminStep(c, reply) ==
  /\ calls[c].kind = "adminMessage"
  /\ calls[c].pc \in { "admin", "curriculum" }
  /\ reply \in (IF calls[c].pc = "admin" THEN AdminReplies ELSE Replies)
  /\ LET s == Replied(Work(c), reply) IN
       Commit(c,
         IF reply = "throw" THEN Return(s, "threw")
         ELSE IF calls[c].pc = "admin" /\ reply = "goals" /\ Has("curriculum")
         THEN Invoke(s, "curriculum", "curriculum", activeAgents["curriculum"],
                     "goal_processing")
         ELSE Return(s, "ok"))
  /\ UNCHANGED << agents, activeAgents, refs, isInitialized, env,
                  healthTimers, ncalls >>

\* ---------------------------------------------------------------- handleEmergency
\* A call of handleEmergency(type, data) is at "guardian", "counseling" or
\* "principal": awaiting that agent's answer to the notification.

\* this.logger.critical(...) (lines 300, 420) throws a TypeError when the
\* logger has no such method.
LogCriticalThrows == "critical" \notin loggerLevels

\* Line 331: the event is emitted; its handler (lines 419-421) logs it.
EmergencyEmit(s) ==
  IF LogCriticalThrows THEN Return([s EXCEPT !.ev = @ + 1], "threw")
  ELSE Return([s EXCEPT !.ev = @ + 1], "ok")

\* Lines 326-329.
EmergencyPrincipal(s) ==
  IF Has("principal")
  THEN Invoke(s, "principal", "principal", activeAgents["principal"],
              "system_emergency")
  ELSE EmergencyEmit(s)

\* Lines 321-324.
EmergencyCounseling(s) ==
  IF Has("counseling")
  THEN Invoke(s, "counseling", "counseling", activeAgents["counseling"],
              "system_emergency")
  ELSE EmergencyPrincipal(s)

\* A handleEmergency that never waits for the Guardian.
EmergencySkipsGuardian == FALSE

\* Line 304: the Guardian is notified when it is set.
EmergencyNotifiesGuardian == guardian # 0

\* Lines 299-311: the emergency is logged, emergencyMode set and the
\* Guardian, when set, notified.
EmergencyStart(c) ==
  /\ CanCall(c)
  /\ ncalls' = ncalls + 1
  /\ LET s == [Work(c) EXCEPT !.c = NewCall("handleEmergency", "", "")]
         t == [s EXCEPT !.ss.emergencyMode = TRUE]
     IN Commit(c,
          IF LogCriticalThrows THEN Return(s, "threw")
          ELSE IF EmergencyNotifiesGuardian
          THEN Invoke(t, "guardian", "guardian", guardian, "emergency_protocol")
          ELSE EmergencyCounseling(t))
  /\ UNCHANGED << agents, activeAgents, refs, isInitialized, env,
                  healthTimers >>

\* Lines 305-331: an agent has answered its notification; a throw ends the
\* call, nothing in handleEmergency catches it.
EmergencyStep(c, reply) ==
  /\ calls[c].kind = "handleEmergency"
  /\ calls[c].pc \in { "guardian", "counseling", "principal" }
  /\ LET s == Replied(Work(c), reply)
         pc == calls[c].pc
     IN Commit(c,
          CASE reply = "throw" -> Return(s, "threw")
            [] reply # "throw" /\ pc = "guardian" -> EmergencyCounseling(s)
            [] reply # "throw" /\ pc = "counseling" -> EmergencyPrincipal(s)
            [] reply # "throw" /\ pc = "principal" -> EmergencyEmit(s))
  /\ UNCHANGED << agents, activeAgents, refs, isInitialized, env,
                  healthTimers, ncalls >>

\* ------------------------------------------------------------------ updateStatus
\* agent.updateStatus(status) of a registered agent (lines 162-167).
UpdateStatus(c, agentId, status) ==
  /\ CanCall(c)
  /\ agents[agentId] # 0
  /\ ncalls' = ncalls + 1
  /\ heap' = [heap EXCEPT ![agents[agentId]].status = status]
  /\ calls' = [calls EXCEPT ![c] =
       [Done(NewCall("updateStatus", agentId, status), "ok")
          EXCEPT !.tmp = agents[agentId]]]
  /\ UNCHANGED << agents, activeAgents, refs, isInitialized, systemState,
                  env, healthTimers, events, delivered >>

\* The arguments of the updateStatus calls of the model.
StatusIds == { "guardian" }

Statuses == { "error" }

\* ------------------------------------------------- determineDepartment, called
\* determineDepartment(interaction) called on the orchestrator (lines
\* 449-460): it reads interaction.content and returns a department id or
\* null; it reads and writes no field of the orchestrator.
DetermineDepartment(c, content) ==
  /\ CanCall(c)
  /\ ncalls' = ncalls + 1
  /\ calls' = [calls EXCEPT ![c] =
       Done(NewCall("determineDepartment", content, ""),
            determineDepartment(content))]
  /\ UNCHANGED << heap, agents, activeAgents, refs, isInitialized,
                  systemState, env, healthTimers, events, delivered >>

\* The words the contents of the model are made of: the keywords of lines
\* 453-457 and a word that is none.
Words ==
  {
     << "m", "a", "t", "h" >>,
     << "c", "a", "l", "c", "u", "l", "a", "t", "i", "o", "n" >>,
     << "s", "c", "i", "e", "n", "c", "e" >>,
     << "e", "x", "p", "e", "r", "i", "m", "e", "n", "t" >>,
     << "a", "r", "t" >>,
     << "c", "r", "e", "a", "t", "i", "v", "e" >>,
     << "e", "x", "e", "r", "c", "i", "s", "e" >>,
     << "f", "i", "t", "n", "e", "s", "s" >>,
     << "s", "a", "d" >>,
     << "w", "o", "r", "r", "i", "e", "d" >>,
     << "h", "e", "l", "l", "o" >>
  }

MathHomework ==
    << "I", " ", "n", "e", "e", "d", " ", "h", "e", "l", "p", " ", "w", "i",
       "t", "h", " ", "m", "a", "t", "h", " ", "h", "o", "m", "e", "w", "o",
       "r", "k" >>

SadToday ==
    << "I", " ", "f", "e", "e", "l", " ", "s", "a", "d", " ", "t", "o", "d",
       "a", "y" >>

PaintTogether ==
    << "l", "e", "t", "'", "s", " ", "p", "a", "i", "n", "t", " ", "t", "o",
       "g", "e", "t", "h", "e", "r" >>

HelloThere ==
    << "h", "e", "l", "l", "o", " ", "t", "h", "e", "r", "e" >>

\* The contents determineDepartment is called with: no content, one word,
\* two words in either order, a word in capitals, and four sentences.
DepartmentInputs ==
  { << >>, << "M", "a", "t", "H" >>, MathHomework, SadToday, PaintTogether,
    HelloThere }
    \cup Words
    \cup { v \o << " " >> \o w : v \in Words, w \in Words }

NextDepartment ==
  \E c \in Callers, content \in DepartmentInputs :
    DetermineDepartment(c, content)

SpecDepartment == Init /\ [][NextDepartment]_vars

\* -------------------------------------------------- getMessagePriority, called
\* getMessagePriority(fromAgentId, toAgentId) called on the orchestrator
\* (lines 436-447), as routeMessage calls it for its envelope (line 192): it
\* reads this.activeAgents and the agents' priority and writes nothing.
GetMessagePriority(c, fromAgentId, toAgentId) ==
  /\ CanCall(c)
  /\ ncalls' = ncalls + 1
  /\ calls' = [calls EXCEPT ![c] =
       [Done(NewCall("getMessagePriority", fromAgentId, toAgentId), "ok")
          EXCEPT !.priority = getMessagePriority(fromAgentId, toAgentId)]]
  /\ UNCHANGED << heap, agents, activeAgents, refs, isInitialized,
                  systemState, env, healthTimers, events, delivered >>

\* Senders and targets of every kind: the Guardian, the Counseling agent,
\* the Black Box, two other departments and an id that is no agent's.
PriorityIds == { "guardian", "counseling", "blackBox", "math", "arts", UnknownId }

\* Priorities asked for and envelopes routed before, while and after
\* initialize() registers the agents.
NextPriority ==
  \/ \E c \in Callers : InitializeStart(c)
  \/ \E c \in Callers : Initialize(c)
  \/ \E c \in Callers, a \in RouteArgs : RouteStart(c, a[1], a[2])
  \/ \E c \in Callers : RouteMessage(c)
  \/ \E c \in Callers, from, to \in PriorityIds :
       GetMessagePriority(c, from, to)

SpecPriority == Init /\ [][NextPriority]_vars

\* ------------------------------------------------------------ gracefulShutdown
\* The process runs until gracefulShutdown has called process.exit.
Running == systemState.status # "shutdown"

\* The cleanup of gracefulShutdown (preload.js, lines 628-651), which runs
\* once the server, started after initialize() has resolved, has closed:
\* every active agent's status becomes 'shutting_down', the system status
\* 'shutdown', and the process exits.
GracefulShutdown ==
  /\ Running
  /\ isInitialized
  /\ \A c \in Callers : Returned(c)
  /\ heap' = [ o \in DOMAIN heap |->
                 IF \E id \in AgentIds : activeAgents[id] = o
                 THEN [heap[o] EXCEPT !.status = "shutting_down"]
                 ELSE heap[o] ]
  /\ systemState' = [systemState EXCEPT !.status = "shutdown"]
  /\ UNCHANGED << agents, activeAgents, refs, isInitialized, env,
                  healthTimers, events, delivered, ncalls, calls >>

\* The life of the process: startup, status updates of the agents, and the
\* shutdown, after which nothing runs.
NextLifecycle ==
  \/ \E c \in Callers : Running /\ InitializeStart(c)
  \/ \E c \in Callers : Running /\ Initialize(c)
  \/ \E c \in Callers, id \in StatusIds, status \in Statuses :
       Running /\ UpdateStatus(c, id, status)
  \/ GracefulShutdown

SpecLifecycle == Init /\ [][NextLifecycle]_vars

\* --------------------------------------------------------------- getSystemHealth
\* A count of the immutable agents that are active.
HealthImmutableCounted ==
  Cardinality({ id \in ImmutableIds : activeAgents[id] # 0 })

\* Line 381: the number of immutable agents is written into the snapshot as
\* a literal.
HealthImmutableCount == 2

\* The snapshot getSystemHealth() returns in the current state (lines
\* 374-397; timestamp and uptime left out).  It reads and writes nothing
\* else.  Object.keys counts the keys of the registry section, whatever
\* their entries hold; `this.guardian?.status` of a null guardian is
\* undefined.
getSystemHealth ==
  [ status |-> systemState.status,
    agents |->
      [ total |-> Cardinality({ id \in AgentIds : agents[id] # 0 }),
        active |-> Cardinality({ id \in AgentIds : activeAgents[id] # 0 }),
        immutable |-> HealthImmutableCount,
        departmental |-> Cardinality(DepartmentIds) ],
    performance |->
      [ totalInteractions |-> systemState.totalInteractions,
        averageResponseTime |-> 250 ],
    flags |->
      [ emergencyMode |-> systemState.emergencyMode,
        guardianActive |-> guardian # 0 /\ heap[guardian].status = "active",
        blackBoxActive |-> blackBox # 0 /\ heap[blackBox].status = "active" ] ]

Next ==
  \/ \E c \in Callers, a \in CreateArgs : CreateAgent(c, a[1], a[2])
  \/ \E c \in Callers : InitializeStart(c)
  \/ \E c \in Callers : Initialize(c)
  \/ \E c \in Callers, a \in RouteArgs : RouteStart(c, a[1], a[2])
  \/ \E c \in Callers : RouteMessage(c)
  \/ \E c \in Callers, content \in Contents : StudentStart(c, content)
  \/ \E c \in Callers, reply \in Replies : StudentStep(c, reply)
  \/ \E c \in Callers : AdminStart(c)
  \/ \E c \in Callers, reply \in AdminReplies : AdminStep(c, reply)
  \/ \E c \in Callers : EmergencyStart(c)
  \/ \E c \in Callers, reply \in Replies : EmergencyStep(c, reply)
  \/ \E c \in Callers, id \in StatusIds, status \in Statuses :
       UpdateStatus(c, id, status)

\* ----------------------------------------------------------------- properties
RouteCall(c) == calls[c].kind = "routeMessage"

Invoked(r, type) ==
  \E i \in 1..Len(r.trace) : r.trace[i].ev = "invoke" /\ r.trace[i].type = type

\* The agent asked with a message of `type` answered `reply`.
Answered(r, type, reply) ==
  \E i \in 2..Len(r.trace) :
    /\ r.trace[i].ev = "reply" /\ r.trace[i].type = reply
    /\ r.trace[i - 1].ev = "invoke" /\ r.trace[i - 1].type = type

Approved(r) == Answered(r, "ethical_review", "approved")

Delivered(r) == Invoked(r, "envelope")

Audits(r) ==
  Cardinality({ i \in 1..Len(r.trace) :
    r.trace[i].ev = "invoke" /\ r.trace[i].type = "log_interaction" })

\* C1, as claimed: a routeMessage call of a sender other than the Guardian
\* that has returned has delivered its envelope to the target if and only if
\* the Guardian approved the envelope.
C1_DeliveredIffApproved ==
  \A c \in Callers :
    (RouteCall(c) /\ calls[c].a1 # "guardian" /\ Returned(c))
      => (Delivered(calls[c]) <=> Approved(calls[c]))

\* C1, amended: an envelope of a sender other than the Guardian is delivered
\* only if the Guardian approved it, and an approved envelope is delivered
\* unless the Black Box threw on logging it or the target is no active agent.
C1_DeliveredOnlyIfApproved ==
  \A c \in Callers :
    (RouteCall(c) /\ calls[c].a1 # "guardian") =>
      /\ Delivered(calls[c]) => Approved(calls[c])
      /\ calls[c].ethicalReview <=> Approved(calls[c])
      /\ (Returned(c) /\ Approved(calls[c]) /\ ~Delivered(calls[c]))
           => calls[c].result \in { "error:audit", "error:not found" }

C1_Witness ==
  \E c \in Callers :
    /\ RouteCall(c) /\ calls[c].a1 # "guardian" /\ Returned(c)
    /\ Approved(calls[c]) /\ Delivered(calls[c])

\* C2: every routeMessage call that has returned has asked the Black Box to
\* record its envelope exactly once.
C2_ExactlyOneAudit ==
  \A c \in Callers : (RouteCall(c) /\ Returned(c)) => Audits(calls[c]) = 1

\* C3: the review is fail-closed: an envelope of a sender other than the
\* Guardian is not delivered when the Guardian was not set (no review was
\* asked for), when the review threw, or when its answer carried no approval.
C3_FailClosed ==
  \A c \in Callers :
    (RouteCall(c) /\ calls[c].a1 # "guardian"
       /\ \/ ~Invoked(calls[c], "ethical_review")
          \/ Answered(calls[c], "ethical_review", "throw")
          \/ Answered(calls[c], "ethical_review", PlaceholderReply))
      => ~Delivered(calls[c])

\* A call made while the Guardian was unset and a call whose review threw
\* have both returned, neither having delivered.
C3_Witness ==
  \E c, d \in Callers :
    /\ RouteCall(c) /\ calls[c].a1 # "guardian" /\ Returned(c)
    /\ ~Invoked(calls[c], "ethical_review")
    /\ RouteCall(d) /\ calls[d].a1 # "guardian" /\ Returned(d)
    /\ Answered(calls[d], "ethical_review", "throw")

\* C4: whatever processStudentInteraction or processAdminMessage hands to an
\* agent has been reviewed by the Guardian and recorded by the Black Box
\* before.
C4_FlowsGoThroughRouter ==
  \A c \in Callers :
    calls[c].kind \in { "studentInteraction", "adminMessage" } =>
      \A i \in 1..Len(calls[c].trace) :
        calls[c].trace[i].ev = "invoke" =>
          /\ \E j \in 1..(i - 1) : calls[c].trace[j].type = "ethical_review"
          /\ \E j \in 1..(i - 1) : calls[c].trace[j].type = "log_interaction"

\* The step just taken is a call of createAgent by caller c.
CreateCalled(c) ==
  /\ calls'[c] # calls[c]
  /\ calls'[c].kind = "createAgent"

\* C5: createAgent with an id that is registered already is rejected and
\* leaves the registry as it is.
C5_DuplicateRejected ==
  [][\A c \in Callers :
       (CreateCalled(c) /\ agents[calls'[c].a1] # 0)
         => (calls'[c].result = "threw" /\ agents' = agents)]_vars

\* C6: createAgent with a config without a name is rejected and registers
\* nothing; a createAgent that succeeds leaves the new agent 'active' with
\* its metadata initialised.
C6_NamelessRejected ==
  [][\A c \in Callers :
       CreateCalled(c) =>
         /\ calls'[c].a2 = Undefined
              => (calls'[c].result = "threw" /\ agents' = agents)
         /\ calls'[c].result = "ok"
              => /\ heap'[calls'[c].tmp].status = "active"
                 /\ heap'[calls'[c].tmp].interactions = 0]_vars

\* C7: once initialize() has completed, one Guardian and one Black Box
\* exist, each of them the one object that is registered, active and
\* referenced by the orchestrator, with priority 0 and immutable set.
C7_ImmutableAgentsFixed ==
  isInitialized =>
    \A id \in ImmutableIds :
      /\ agents[id] # 0
      /\ agents[id] = activeAgents[id]
      /\ agents[id] = (IF id = "guardian" THEN guardian ELSE blackBox)
      /\ heap[agents[id]].priority = 0
      /\ heap[agents[id]].immutable

\* C8: once handleEmergency has been called emergencyMode is true, and
\* nothing sets it back to false.
C8_EmergencyModeSetAndKept ==
  /\ [](\A c \in Callers :
         calls[c].kind = "handleEmergency" => systemState.emergencyMode)
  /\ [][systemState.emergencyMode => systemState'.emergencyMode]_vars

\* C9: in handleEmergency the Counseling and the Principal agent are
\* notified only after the Guardian has been notified and has answered.
C9_GuardianFirst ==
  \A c \in Callers :
    calls[c].kind = "handleEmergency" =>
      \A i \in 1..Len(calls[c].trace) :
        (calls[c].trace[i].ev = "invoke"
           /\ calls[c].trace[i].key \in { "counseling", "principal" })
          => /\ i > 2
             /\ calls[c].trace[1] =
                  Ev("invoke", "guardian", calls[c].trace[1].oid,
                     "emergency_protocol")
             /\ calls[c].trace[2] =
                  Ev("reply", "guardian", calls[c].trace[1].oid,
                     PlaceholderReply)

C9_Witness ==
  \E c \in Callers :
    /\ calls[c].kind = "handleEmergency"
    /\ \E i \in 1..Len(calls[c].trace) :
         calls[c].trace[i].ev = "invoke" /\ calls[c].trace[i].key = "counseling"
    /\ \E i \in 1..Len(calls[c].trace) :
         calls[c].trace[i].ev = "invoke" /\ calls[c].trace[i].key = "principal"

\* C10: a handleEmergency call in which the notification of the Counseling
\* agent threw has still notified the Principal agent, when there is one.
C10_NotifierIsolation ==
  \A c \in Callers :
    (calls[c].kind = "handleEmergency" /\ Returned(c)
       /\ Answered(calls[c], "system_emergency", "throw")
       /\ calls[c].trace[Len(calls[c].trace)].key = "counseling"
       /\ Has("principal"))
      => \E i \in 1..Len(calls[c].trace) :
           calls[c].trace[i].ev = "invoke" /\ calls[c].trace[i].key = "principal"

\* C13: a routing attempt whose audit record the Black Box failed to persist
\* ends in a fatal error: routeMessage rejects, or the system status is
\* 'error'.
C13_AuditFailureFatal ==
  \A c \in Callers :
    (RouteCall(c) /\ Returned(c)
       /\ Answered(calls[c], "log_interaction", "throw"))
      => (calls[c].result = "threw" \/ systemState.status = "error")

\* The results routeMessage returns for a routing failure, success being
\* false in each.
RouteFailures ==
  { "blocked", "error:review", "error:audit", "error:not found",
    "error:target" }

\* What went wrong in a routeMessage call, if anything.
RouteFailure(r) ==
  CASE Answered(r, "ethical_review", "throw") -> "error:review"
    [] Answered(r, "ethical_review", PlaceholderReply) -> "blocked"
    [] Answered(r, "log_interaction", "throw") -> "error:audit"
    [] Answered(r, "envelope", "throw") -> "error:target"
    [] OTHER -> IF Delivered(r) THEN "ok" ELSE "error:not found"

\* C14: routeMessage never throws to its caller: a call that has returned
\* has returned a result, which is the failure result of what went wrong in
\* it (rejection, review error, audit error, unknown target, target error)
\* or, when nothing went wrong, the target's response.
C14_RouteNeverThrows ==
  \A c \in Callers :
    (RouteCall(c) /\ Returned(c)) =>
      /\ calls[c].result # "threw"
      /\ calls[c].result \in RouteFailures \cup { "ok" }
      /\ calls[c].result = RouteFailure(calls[c])

\* Calls that failed in two different ways have returned.
C14_Witness ==
  \E c, d \in Callers :
    /\ RouteCall(c) /\ Returned(c) /\ calls[c].result = "error:target"
    /\ RouteCall(d) /\ Returned(d) /\ calls[d].result = "error:audit"

\* The position in the trace of the first invocation with a message of
\* `type`, 0 when there is none.
FirstInvoke(r, type) ==
  IF Invoked(r, type)
  THEN CHOOSE i \in 1..Len(r.trace) :
         /\ r.trace[i].ev = "invoke" /\ r.trace[i].type = type
         /\ \A j \in 1..(i - 1) :
              ~(r.trace[j].ev = "invoke" /\ r.trace[j].type = type)
  ELSE 0

\* C20: within a routeMessage call the Black Box is asked to record the
\* envelope after the Guardian's review has been answered and before the
\* target is invoked, and a call that has returned has asked the Black Box
\* whether or not it reached the delivery.
C20_ReviewAuditDelivery ==
  \A c \in Callers :
    RouteCall(c) =>
      LET r == calls[c]
          review == FirstInvoke(r, "ethical_review")
          audit == FirstInvoke(r, "log_interaction")
          delivery == FirstInvoke(r, "envelope")
      IN /\ (review # 0 /\ audit # 0) => audit = review + 2
         /\ delivery # 0 => (audit # 0 /\ delivery = audit + 2)
         /\ Returned(c) => audit # 0

\* C15: once the system is initialized the Guardian's status is 'active' in
\* every state, whatever updateStatus calls were made and also when the
\* process shuts down, and getSystemHealth() reports guardianActive true.
C15_GuardianAlwaysActive ==
  isInitialized =>
    /\ heap[guardian].status = "active"
    /\ getSystemHealth.flags.guardianActive

DepartmentCall(c) == calls[c].kind = "determineDepartment"

\* C16: determineDepartment returns 'math' for "I need help with math
\* homework", 'counseling' for "I feel sad today", 'arts' for "let's paint
\* together" and null for "hello there".
C16_ExampleDepartments ==
  \A c \in Callers :
    DepartmentCall(c) =>
      /\ calls[c].a1 = MathHomework => calls[c].result = "math"
      /\ calls[c].a1 = SadToday => calls[c].result = "counseling"
      /\ calls[c].a1 = PaintTogether => calls[c].result = "arts"
      /\ calls[c].a1 = HelloThere => calls[c].result = Null

\* C16, amended: determineDepartment returns 'math' for "I need help with
\* math homework", 'counseling' for "I feel sad today", and null for "let's
\* paint together" and for "hello there".
C16_ExampleDepartmentsPaintNull ==
  \A c \in Callers :
    DepartmentCall(c) =>
      /\ calls[c].a1 = MathHomework => calls[c].result = "math"
      /\ calls[c].a1 = SadToday => calls[c].result = "counseling"
      /\ calls[c].a1 = PaintTogether => calls[c].result = Null
      /\ calls[c].a1 = HelloThere => calls[c].result = Null

C16_Witness ==
  \E c \in Callers :
    DepartmentCall(c) /\ calls[c].a1 = PaintTogether /\ calls[c].result = Null

\* The keyword table of the specification, in its order.
KeywordTable ==
  << [ department |-> "math",
       keywords |-> { << "m", "a", "t", "h" >>,
                      << "c", "a", "l", "c", "u", "l", "a", "t", "i", "o", "n" >> } ],
     [ department |-> "science",
       keywords |-> { << "s", "c", "i", "e", "n", "c", "e" >>,
                      << "e", "x", "p", "e", "r", "i", "m", "e", "n", "t" >> } ],
     [ department |-> "arts",
       keywords |-> { << "a", "r", "t" >>,
                      << "c", "r", "e", "a", "t", "i", "v", "e" >> } ],
     [ department |-> "athletics",
       keywords |-> { << "e", "x", "e", "r", "c", "i", "s", "e" >>,
                      << "f", "i", "t", "n", "e", "s", "s" >> } ],
     [ department |-> "counseling",
       keywords |-> { << "s", "a", "d" >>,
                      << "w", "o", "r", "r", "i", "e", "d" >> } ] >>

\* The rows of the table of which a keyword occurs in the content.
MatchingRows(content) ==
  { i \in 1..Len(KeywordTable) :
      \E k \in KeywordTable[i].keywords : includes(toLowerCase(content), k) }

\* C17: determineDepartment returns the department of the earliest row of
\* the keyword table of which a keyword occurs in the content, null when
\* there is none; equal contents give equal results; and a call changes
\* nothing of the orchestrator's state.
C17_FirstMatchWins ==
  /\ [](\A c \in Callers :
          DepartmentCall(c) =>
            LET rows == MatchingRows(calls[c].a1) IN
              /\ rows = {} => calls[c].result = Null
              /\ rows # {} =>
                   \E i \in rows :
                     /\ \A j \in rows : i <= j
                     /\ calls[c].result = KeywordTable[i].department)
  /\ [][\A c \in Callers :
          (DepartmentCall(c) /\ DepartmentCall(c)'
             /\ calls'[c].a1 = calls[c].a1)
            => calls'[c].result = calls[c].result]_vars
  /\ [][(\E c \in Callers : calls'[c] # calls[c] /\ DepartmentCall(c)')
         => UNCHANGED << heap, agents, activeAgents, refs, isInitialized,
                         systemState, healthTimers, events, delivered >>]_vars

\* A content with keywords of two departments, the later row's first, has
\* been classified a second time.
C17_Witness ==
  \E c \in Callers :
    /\ DepartmentCall(c) /\ Cardinality(MatchingRows(calls[c].a1)) = 2
    /\ ncalls > 1
    /\ calls[c].a1 = << "s", "a", "d", " ", "m", "a", "t", "h" >>
    /\ calls[c].result = "math"

\* The step just taken is a call of routeMessage or of getMessagePriority
\* by caller c.
PriorityCalled(c) ==
  /\ calls'[c] # calls[c]
  /\ calls'[c].kind \in { "routeMessage", "getMessagePriority" }
  /\ ncalls' = ncalls + 1

\* C18, as claimed: the priority of the envelope of routeMessage(from, to)
\* is 1 whenever the Guardian is the sender or the target, 2 whenever the
\* Counseling agent is and the Guardian is not, and otherwise the minimum of
\* the priorities of the sender and of the target.
C18_PriorityForced ==
  \A c \in Callers :
    RouteCall(c) =>
      LET from == calls[c].a1
          to == calls[c].a2
      IN /\ "guardian" \in { from, to } => calls[c].priority = 1
         /\ ("guardian" \notin { from, to } /\ "counseling" \in { from, to })
              => calls[c].priority = 2
         /\ ({ "guardian", "counseling" } \cap { from, to } = {}
               /\ Has(from) /\ Has(to))
              => calls[c].priority =
                   Min(heap[activeAgents[from]].priority,
                       heap[activeAgents[to]].priority)

\* The rule of C18 for a sender and a target that are both active agents,
\* and 5 when one of them is not; p is the priority to be judged.
PriorityRule(from, to, p) ==
  /\ (~Has(from) \/ ~Has(to)) => p = 5
  /\ (Has(from) /\ Has(to)) =>
       /\ "guardian" \in { from, to } => p = 1
       /\ ("guardian" \notin { from, to } /\ "counseling" \in { from, to })
            => p = 2
       /\ { "guardian", "counseling" } \cap { from, to } = {} =>
            /\ p \in { heap[activeAgents[from]].priority,
                        heap[activeAgents[to]].priority }
            /\ p <= heap[activeAgents[from]].priority
            /\ p <= heap[activeAgents[to]].priority

\* C18, amended: the priority is 5 when the sender or the target is not an
\* active agent at the time of the call; otherwise it follows the rule of
\* C18.  This holds of what getMessagePriority returns and of the envelope
\* every routeMessage call builds, judged in the state the call is made in.
C18_PriorityOfActiveAgents ==
  [][\A c \in Callers :
       PriorityCalled(c) =>
         PriorityRule(calls'[c].a1, calls'[c].a2, calls'[c].priority)]_vars

\* An envelope of priority 1 has been built for active agents and the
\* minimum rule has been applied to two of them, in a state in which it
\* gives three different priorities.
C18_Witness ==
  /\ \E c, d \in Callers :
       /\ RouteCall(c) /\ calls[c].a1 = "guardian" /\ calls[c].priority = 1
       /\ calls[d].kind = "getMessagePriority" /\ calls[d].a1 = "arts"
       /\ calls[d].a2 = "math" /\ calls[d].priority = 2
  /\ getMessagePriority("math", "counseling") = 2
  /\ getMessagePriority("arts", "arts") = 3
  /\ getMessagePriority("math", "blackBox") = 0

Spec == Init /\ [][Next]_vars

\* ------------------------------------------------------------------- startup
\* startSystem (preload.js, lines 446-476) awaits initialize() before it
\* sets up the API routes: while the system starts nothing but initialize()
\* runs.  The registry it reads may have a null entry.
NextStartup ==
  \/ \E c \in Callers : InitializeStart(c)
  \/ \E c \in Callers : Initialize(c)

SpecStartup == InitFaults /\ [][NextStartup]_vars

InitializeCall(c) == calls[c].kind = "initialize"

\* The call has put the agent `id` into this.activeAgents.
Activates(r, id) ==
  \E i \in 1..Len(r.trace) : r.trace[i].ev = "activate" /\ r.trace[i].key = id

\* The order in which initialize() creates the agents.
InitializeOrder == << "guardian", "blackBox" >> \o DepartmentOrder \o << StudentId >>

Rank(id) == CHOOSE i \in 1..Len(InitializeOrder) : InitializeOrder[i] = id

\* C11: when the creation of one departmental agent throws, initialize()
\* skips it, still creates and activates every other departmental agent and
\* the student-facing agent, resolves, and leaves the system operational.
C11_DepartmentFailureSkipped ==
  \A c \in Callers :
    (InitializeCall(c) /\ Returned(c) /\ registryFault \in DepartmentIds) =>
      /\ calls[c].result = "ok"
      /\ isInitialized
      /\ systemState.status = "operational"
      /\ ~Activates(calls[c], registryFault)
      /\ \A id \in (DepartmentIds \ { registryFault }) \cup { StudentId } :
           Activates(calls[c], id) /\ activeAgents[id] # 0

C11_Witness ==
  \E c \in Callers :
    /\ InitializeCall(c) /\ Returned(c) /\ registryFault = "math"
    /\ Activates(calls[c], "science") /\ Activates(calls[c], StudentId)

\* C12: when the creation of the Guardian, the Black Box or the
\* student-facing agent throws, initialize() rejects, the status becomes
\* 'error', the system never becomes operational, and no step that follows
\* the failed creation is executed.
C12_FatalFailureAborts ==
  \A c \in Callers :
    (InitializeCall(c) /\ registryFault \in ImmutableIds \cup { StudentId }) =>
      /\ Returned(c) => (calls[c].result = "threw" /\ systemState.status = "error")
      /\ systemState.status # "operational"
      /\ ~isInitialized
      /\ healthTimers = 0
      /\ \A i \in 1..Len(calls[c].trace) :
           Rank(calls[c].trace[i].key) < Rank(registryFault)

\* C19: getSystemHealth() reports 2 immutable agents in every state, however
\* many departmental agents were created or failed to initialize.
C19_ImmutableCountIsTwo == getSystemHealth.agents.immutable = 2

\* initialize() has returned with one departmental agent missing, and the
\* snapshot counts the other agents.
C19_Witness ==
  /\ registryFault = "math"
  /\ \E c \in Callers : InitializeCall(c) /\ Returned(c)
  /\ getSystemHealth.agents.active = Cardinality(DepartmentIds) + 2
  /\ getSystemHealth.agents.immutable = 2

C12_Witness ==
  \E c \in Callers :
    /\ InitializeCall(c) /\ Returned(c) /\ registryFault = StudentId
    /\ calls[c].result = "threw"
    /\ Activates(calls[c], "admin")

\* ------------------------------------------------------------------- routing
\* The routeMessage calls of the routing specification: those of RouteArgs
\* and an envelope of the Guardian to itself.
RoutingArgs == RouteArgs \cup { << "guardian", "guardian" >> }

\* Envelopes routed before, while and after initialize() registers the
\* agents.
NextRouting ==
  \/ \E c \in Callers : InitializeStart(c)
  \/ \E c \in Callers : Initialize(c)
  \/ \E c \in Callers, a \in RoutingArgs : RouteStart(c, a[1], a[2])
  \/ \E c \in Callers : RouteMessage(c)

SpecRouting == Init /\ [][NextRouting]_vars

CompletingDeliveries ==
  { c \in Callers :
      /\ At(c, "routeMessage", "deliver")
      /\ Returned(c)' /\ calls'[c].result = "ok" }

\* C28: with routeMessage calls interleaved at their awaits,
\* totalInteractions is the number of deliveries completed so far, and every
\* step adds to it exactly the number of routeMessage calls whose delivery
\* completes in that step, which is at most one: a call that is rejected,
\* fails, finds no target or whose target throws adds nothing.
C28_CountsCompletedDeliveries ==
  /\ [](systemState.totalInteractions = delivered)
  /\ [][/\ systemState'.totalInteractions
            = systemState.totalInteractions + Cardinality(CompletingDeliveries)
         /\ Cardinality(CompletingDeliveries) <= 1]_vars

\* Two routeMessage calls were in flight together and both have completed
\* their delivery.
C28_Witness ==
  /\ \A c \in Callers :
       RouteCall(c) /\ Returned(c) /\ calls[c].result = "ok"
  /\ systemState.totalInteractions = 2

\* C26, as claimed: an envelope is delivered if and only if its
\* metadata.ethicalReview is true, the flag is true only after the Guardian
\* approved, and the Guardian is not asked to review exactly the envelopes
\* it sent.
C26_DeliveredIffReviewed ==
  \A c \in Callers :
    (RouteCall(c) /\ Returned(c)) =>
      /\ Delivered(calls[c]) <=> calls[c].ethicalReview
      /\ calls[c].ethicalReview => Approved(calls[c])
      /\ ~Invoked(calls[c], "ethical_review") <=> calls[c].a1 = "guardian"

\* C26, amended: an envelope is delivered only if its metadata.ethicalReview
\* is true or the Guardian sent it; the flag is true exactly when the
\* Guardian approved the envelope; the Guardian is never asked to review an
\* envelope it sent; and an envelope of another sender that was not put to
\* review (the Guardian was not registered yet) is not delivered.
C26_DeliveredOnlyReviewedOrGuardian ==
  \A c \in Callers :
    RouteCall(c) =>
      /\ Delivered(calls[c])
           => (calls[c].ethicalReview \/ calls[c].a1 = "guardian")
      /\ calls[c].ethicalReview <=> Approved(calls[c])
      /\ calls[c].a1 = "guardian" => ~Invoked(calls[c], "ethical_review")
      /\ (Returned(c) /\ calls[c].a1 # "guardian"
            /\ ~Invoked(calls[c], "ethical_review"))
           => ~Delivered(calls[c])

\* An envelope of the Guardian has been delivered unreviewed while the
\* Guardian was registered, its flag still false.
C26_Witness ==
  \E c \in Callers :
    /\ RouteCall(c) /\ Returned(c) /\ calls[c].a1 = "guardian"
    /\ guardian # 0 /\ calls[c].result = "ok"
    /\ Delivered(calls[c]) /\ ~calls[c].ethicalReview

\* C29: in every interleaving of routeMessage with initialize(), no state
\* has an agent registered as an active target while the Guardian or the
\* Black Box reference is unset, and no envelope is delivered before the
\* Black Box has been asked to record it.
C29_NoTargetBeforeGuardianAndBlackBox ==
  /\ (\E id \in AgentIds : activeAgents[id] # 0)
       => (guardian # 0 /\ blackBox # 0)
  /\ \A c \in Callers :
       (RouteCall(c) /\ Delivered(calls[c]))
         => Invoked(calls[c], "log_interaction")

\* What the window between the registration of the Guardian and that of the
\* Black Box allows: an envelope delivered with success that neither the
\* Guardian reviewed nor the Black Box recorded.
C29_DeliveredUnrecorded ==
  \E c \in Callers :
    /\ RouteCall(c) /\ Returned(c) /\ calls[c].result = "ok"
    /\ Delivered(calls[c]) /\ ~Invoked(calls[c], "log_interaction")
    /\ ~Invoked(calls[c], "ethical_review")

\* ------------------------------------------------------------------- service
\* The number of health checks a behaviour of the model runs.
MaxTicks == 2

\* A health check that counts as an interaction.
HealthTickCountsInteraction ==
  /\ healthTimers > 0
  /\ systemState.lastHealthCheck < MaxTicks
  /\ systemState' = [systemState EXCEPT !.lastHealthCheck = @ + 1,
                                        !.totalInteractions = @ + 1]
  /\ UNCHANGED << heap, agents, activeAgents, refs, isInitialized, env,
                  healthTimers, events, delivered, ncalls, calls >>

\* The callback of the timer startHealthMonitoring has started (lines
\* 430-433): lastHealthCheck takes the time of the check, here its number,
\* and the snapshot of getSystemHealth() is emitted as 'system:healthCheck',
\* an event nothing listens to (lines 414-422).
HealthTick ==
  /\ healthTimers > 0
  /\ systemState.lastHealthCheck < MaxTicks
  /\ systemState' = [systemState EXCEPT !.lastHealthCheck = @ + 1]
  /\ UNCHANGED << heap, agents, activeAgents, refs, isInitialized, env,
                  healthTimers, events, delivered, ncalls, calls >>

\* A call of getSystemHealth() (lines 374-397), as GET /api/health makes it
\* (preload.js, line 483): the call record keeps the status of the snapshot.
GetSystemHealth(c) ==
  /\ CanCall(c)
  /\ ncalls' = ncalls + 1
  /\ calls' = [calls EXCEPT ![c] =
       Done(NewCall("getSystemHealth", "", ""), getSystemHealth.status)]
  /\ UNCHANGED << heap, agents, activeAgents, refs, isInitialized,
                  systemState, env, healthTimers, events, delivered >>

\* The process from startup to shutdown, with a registry whose entries may
\* be wrong: initialize(), the health checks, health requests and the
\* shutdown, after which nothing runs.
NextService ==
  \/ \E c \in Callers : Running /\ InitializeStart(c)
  \/ \E c \in Callers : Running /\ Initialize(c)
  \/ Running /\ HealthTick
  \/ \E c \in Callers : Running /\ GetSystemHealth(c)
  \/ GracefulShutdown

SpecService == InitFaults /\ [][NextService]_vars

\* C22: the status is always one of 'initializing', 'operational', 'error'
\* and 'shutdown'; it becomes 'operational' only in the last step of an
\* initialize() call that has registered the Guardian, the Black Box and the
\* student-facing agent and gone through the departments; and from 'error'
\* or 'shutdown' it never goes to 'initializing' or 'operational'.
C22_StatusLifecycle ==
  /\ [](systemState.status
          \in { "initializing", "operational", "error", "shutdown" })
  /\ [](systemState.status = "operational" =>
          /\ isInitialized /\ healthTimers > 0
          /\ guardian # 0 /\ blackBox # 0 /\ studentAgent # 0)
  /\ [][(systemState.status # "operational"
           /\ systemState'.status = "operational") =>
          \E c \in Callers :
            /\ At(c, "initialize", "channels")
            /\ Returned(c)' /\ calls'[c].result = "ok"
            /\ \A id \in ImmutableIds \cup { StudentId } :
                 Activates(calls[c], id)]_vars
  /\ [][systemState.status \in { "error", "shutdown" } =>
          systemState'.status \notin { "initializing", "operational" }]_vars

\* initialize() has failed and left the status 'error', and has been called
\* again.
C22_Witness ==
  \E c \in Callers :
    /\ InitializeCall(c) /\ ~Returned(c)
    /\ systemState.status = "error" /\ ncalls > 1

\* C25: a health check changes lastHealthCheck and nothing else, and a
\* getSystemHealth() call changes nothing but the caller's own record:
\* neither changes the status, totalInteractions, emergencyMode, the two
\* agent maps or any agent's fields.
C25_HealthReadOnly ==
  [][(systemState'.lastHealthCheck # systemState.lastHealthCheck
       \/ \E c \in Callers :
            calls'[c] # calls[c] /\ calls'[c].kind = "getSystemHealth") =>
      /\ systemState'.status = systemState.status
      /\ systemState'.totalInteractions = systemState.totalInteractions
      /\ systemState'.emergencyMode = systemState.emergencyMode
      /\ UNCHANGED << heap, agents, activeAgents, refs, isInitialized,
                      healthTimers, events, delivered >>]_vars

\* Health checks have run and a getSystemHealth() call has reported the
\* operational status.
C25_Witness ==
  \E c \in Callers :
    /\ calls[c].kind = "getSystemHealth" /\ calls[c].result = "operational"
    /\ systemState.lastHealthCheck = MaxTicks

\* C23: initialize() registers the Guardian before the Black Box, both
\* before any departmental agent, and every departmental agent it creates
\* before the student-facing agent: what a call has created and activated
\* so far follows that order, and the status is 'operational' only when the
\* student-facing agent is registered.
C23_InitializeOrder ==
  /\ blackBox # 0 => guardian # 0
  /\ \A d \in DepartmentIds :
       activeAgents[d] # 0 => (guardian # 0 /\ blackBox # 0)
  /\ activeAgents[StudentId] # 0 =>
       \A d \in DepartmentIds :
         (agents[d] # 0 \/ d # registryFault) => activeAgents[d] # 0
  /\ \A c \in Callers :
       InitializeCall(c) =>
         \A i, j \in 1..Len(calls[c].trace) :
           i < j => Rank(calls[c].trace[i].key) <= Rank(calls[c].trace[j].key)
  /\ systemState.status = "operational" =>
       (studentAgent # 0 /\ activeAgents[StudentId] # 0)

\* initialize() has registered the immutable agents and the departments and
\* is about to register the student-facing agent; the status is still
\* 'initializing'.
C23_Witness ==
  \E c \in Callers :
    /\ At(c, "initialize", "student")
    /\ \A d \in DepartmentIds : activeAgents[d] # 0
    /\ studentAgent = 0 /\ systemState.status = "initializing"

\* ---------------------------------------------------------------- operations
\* The server after startup: startSystem awaits initialize() before it sets
\* up the routes (preload.js, lines 453-456), so the operations run on the
\* initialized orchestrator, interleaved with each other and with the health
\* checks.
NextOperations ==
  \/ \E c \in Callers : ~isInitialized /\ InitializeStart(c)
  \/ \E c \in Callers : Initialize(c)
  \/ \E c \in Callers, a \in RouteArgs :
       isInitialized /\ RouteStart(c, a[1], a[2])
  \/ \E c \in Callers : RouteMessage(c)
  \/ \E c \in Callers, content \in Contents :
       isInitialized /\ StudentStart(c, content)
  \/ \E c \in Callers, reply \in Replies : StudentStep(c, reply)
  \/ \E c \in Callers : isInitialized /\ AdminStart(c)
  \/ \E c \in Callers, reply \in AdminReplies : AdminStep(c, reply)
  \/ \E c \in Callers : isInitialized /\ EmergencyStart(c)
  \/ \E c \in Callers, reply \in Replies : EmergencyStep(c, reply)
  \/ HealthTick

SpecOperations == Init /\ [][NextOperations]_vars

\* The number of times the call has created the agent `id`.
Creations(r, id) ==
  Cardinality({ i \in 1..Len(r.trace) :
    r.trace[i].ev = "create" /\ r.trace[i].key = id })

\* C24: initialize() creates each agent at most once, and exactly once when
\* it has completed; no entry of the agents or activeAgents maps is ever
\* removed; and once initialize() has completed no step of routeMessage,
\* processStudentInteraction, processAdminMessage, handleEmergency or of the
\* health check changes either map.
C24_RegistryWriteOnce ==
  /\ [](\A c \in Callers :
          InitializeCall(c) =>
            \A i \in 1..Len(InitializeOrder) :
              /\ Creations(calls[c], InitializeOrder[i]) <= 1
              /\ (Returned(c) /\ calls[c].result = "ok")
                   => Creations(calls[c], InitializeOrder[i]) = 1)
  /\ [][\A id \in AgentIds :
          /\ agents[id] # 0 => agents'[id] # 0
          /\ activeAgents[id] # 0 => activeAgents'[id] # 0]_vars
  /\ [][isInitialized =>
          (agents' = agents /\ activeAgents' = activeAgents)]_vars

\* On the initialized orchestrator an envelope has been delivered, an
\* emergency handled and a health check run.
C24_Witness ==
  \E c, d \in Callers :
    /\ isInitialized /\ systemState.lastHealthCheck > 0
    /\ RouteCall(c) /\ Returned(c) /\ calls[c].result = "ok"
    /\ calls[d].kind = "handleEmergency" /\ Returned(d)

\* C27: every handleEmergency call emits 'system:emergency' exactly once,
\* after the notifications, whether or not one of them failed: the step in
\* which a handleEmergency call returns emits the event once, and no other
\* step emits it.
C27_EmergencyEmittedOnce ==
  [][IF \E c \in Callers :
          /\ calls'[c] # calls[c]
          /\ calls'[c].kind = "handleEmergency" /\ Returned(c)'
     THEN events' = events + 1
     ELSE events' = events]_vars

\* ------------------------------------------------------------------- student
\* Student interactions processed before, while and after initialize()
\* registers the agents.
NextStudent ==
  \/ \E c \in Callers : InitializeStart(c)
  \/ \E c \in Callers : Initialize(c)
  \/ \E c \in Callers, content \in Contents : StudentStart(c, content)
  \/ \E c \in Callers, reply \in Replies : StudentStep(c, reply)

SpecStudent == Init /\ [][NextStudent]_vars

StudentCall(c) == calls[c].kind = "studentInteraction"

\* The place of a message type in the order of processStudentInteraction.
StudentRank(type) ==
  CASE type = "student_interaction" -> 1
    [] type = "emotional_monitoring" -> 2
    [] type = "departmental_query" -> 3
    [] type = "emergency_response" -> 4
    [] OTHER -> 0

\* The positions of the trace at which the call invoked an agent.
Invokes(r) == { i \in 1..Len(r.trace) : r.trace[i].ev = "invoke" }

\* In this step a step of the call c threw: the student agent is null when
\* the call starts, or the agent the call was awaiting outside the catch
\* answers with a throw.
StudentThrows(c) ==
  /\ calls'[c] # calls[c] /\ StudentCall(c)'
  /\ \/ Returned(c) /\ studentAgent = 0
     \/ /\ StudentCall(c) /\ calls[c].pc \in { "student", "monitor", "department" }
        /\ calls'[c].trace[Len(calls[c].trace) + 1].type = "throw"

\* In this step the agent the call c was awaiting at `pc` answers without
\* throwing.
StudentAnswers(c, pc) ==
  /\ At(c, "studentInteraction", pc) /\ calls'[c] # calls[c]
  /\ calls'[c].trace[Len(calls[c].trace) + 1].type # "throw"

\* The call c is left awaiting the agent `key`, invoked with `type`.
StudentAsks(c, key, type) ==
  /\ ~Returned(c)'
  /\ calls'[c].trace[Len(calls'[c].trace)] =
       Ev("invoke", key, activeAgents[key], type)

\* C30: processStudentInteraction asks the student-facing agent first, then
\* the Counseling agent if it is active, then the department
\* determineDepartment returns if that one is active, each at most once, and
\* returns the student agent's response when nothing threw; when a step
\* throws it asks the Counseling agent, if active, for an emergency response
\* and returns that, and otherwise rethrows.
C30_StudentInteractionFlow ==
  /\ [](\A c \in Callers : StudentCall(c) =>
         LET r == calls[c] IN
           /\ \A i, j \in Invokes(r) :
                i < j => StudentRank(r.trace[i].type) < StudentRank(r.trace[j].type)
           /\ \A i \in Invokes(r) :
                /\ StudentRank(r.trace[i].type) > 0
                /\ r.trace[i].type = "student_interaction"
                     <=> r.trace[i].key = StudentId
                /\ r.trace[i].type \in { "emotional_monitoring", "emergency_response" }
                     => r.trace[i].key = "counseling"
                /\ r.trace[i].type = "departmental_query"
                     => r.trace[i].key = determineDepartment(r.a1)
           /\ r.result = "ok" =>
                /\ Invoked(r, "student_interaction")
                /\ ~Invoked(r, "emergency_response")
                /\ \A i \in 1..Len(r.trace) : r.trace[i].type # "throw"
           /\ r.result = "fallback" =>
                Answered(r, "emergency_response", PlaceholderReply))
  /\ [][\A c \in Callers :
          /\ StudentThrows(c) =>
               IF Has("counseling")
               THEN StudentAsks(c, "counseling", "emergency_response")
               ELSE Returned(c)' /\ calls'[c].result = "threw"
          /\ StudentAnswers(c, "student") =>
               IF Has("counseling")
               THEN StudentAsks(c, "counseling", "emotional_monitoring")
               ELSE LET d == determineDepartment(calls[c].a1) IN
                      IF d # Null /\ Has(d)
                      THEN StudentAsks(c, d, "departmental_query")
                      ELSE Returned(c)' /\ calls'[c].result = "ok"
          /\ StudentAnswers(c, "monitor") =>
               LET d == determineDepartment(calls[c].a1) IN
                 IF d # Null /\ Has(d)
                 THEN StudentAsks(c, d, "departmental_query")
                 ELSE Returned(c)' /\ calls'[c].result = "ok"
          /\ StudentAnswers(c, "department") =>
               (Returned(c)' /\ calls'[c].result = "ok")
          /\ StudentAnswers(c, "fallback") =>
               (Returned(c)' /\ calls'[c].result = "fallback")]_vars

\* The department threw on a student interaction that the student agent and
\* the Counseling agent had answered, and the call has returned the
\* Counseling agent's emergency response.
C30_Witness ==
  \E c \in Callers :
    /\ StudentCall(c) /\ Returned(c) /\ calls[c].result = "fallback"
    /\ Answered(calls[c], "departmental_query", "throw")

\* A student interaction made before the Counseling agent was active has
\* been rethrown to its caller.
C30_Rethrown ==
  \E c \in Callers :
    /\ StudentCall(c) /\ Returned(c) /\ calls[c].result = "threw"
    /\ calls[c].trace = << >>

=============================================================================
